---- MODULE Spec2Model ----
(***************************************************************************)
(* Query-parameter state synchronisation of src/hooks/use-query-state.ts:  *)
(* the hooks useQueryState (one key) and useQueriesState (several keys)    *)
(* against the query string of the URL, which other writers share.         *)
(*                                                                         *)
(* A string is a sequence of one-character strings, so that serialising a  *)
(* snapshot and parsing it back are computed, character by character.      *)
(***************************************************************************)
EXTENDS Integers, Sequences, FiniteSets, TLC

VARIABLES
    url,                  \* the external store: the URL's query, as useSearchParams() gives it
    inflight,             \* router.replace() calls the URL does not reflect yet
    dirty,                \* searchParams changed since the effect last ran
    stableKey,            \* useQueryState: _stableKey.current
    stableOptions,        \* useQueryState: _stableOptions.current
    stableSearchParams,   \* useQueryState: _stableSearchParams.current, <<>> is null
    stableKeys,           \* useQueriesState: _stableKeys.current
    stableOptionsByKey,   \* useQueriesState: _stableOptions.current
    stableSearchParamsM,  \* useQueriesState: _stableSearchParams.current, <<>> is null
    paramUpdates,         \* useQueriesState: _paramUpdates.current
    accepted,             \* useQueriesState: the call type-checks against UniqueArray<K>
    ev,                   \* observation: what the last operation saw and did
    lastCommit,           \* observation: the last router.replace() argument
    rebased,              \* observation: an effect re-based the remembered snapshot on the
                          \*   URL since the last commit
    closedCommits,        \* observation: router.replace() calls while the hook's own
                          \*   commits were the only writes to the URL
    needed,               \* observation: tracked keys the policy changes in the first URL
    disturbances,         \* external writes, setter calls and effect re-runs so far
    returned,             \* the value(s) the hook returns: the memo queryState / queryStrings
    props,                \* the key(s) and options the caller passes in the current render
    historyLength,        \* the number of entries of the history stack
    passed,               \* observation: the effect of the hook has run
    instances             \* two useQueryState on one page: the refs of each, and whether
                          \*   searchParams changed since its effect last ran

vars == <<url, inflight, dirty, stableKey, stableOptions, stableSearchParams,
          stableKeys, stableOptionsByKey, stableSearchParamsM, paramUpdates,
          accepted, ev, lastCommit, rebased, closedCommits, needed,
          disturbances, returned, props, historyLength, passed, instances>>

(***************************************************************************)
(* Bounds of the model.                                                    *)
(***************************************************************************)
MaxDisturbances == 2  \* writes to the URL by other writers, calls of the setter and
                      \*   effect runs caused by a changed callback, taken together
MaxInflight == 2      \* router.replace() calls not yet reflected

(***************************************************************************)
(* Strings.                                                                *)
(***************************************************************************)
Null == <<"<null>">>            \* what URLSearchParams.get gives for a missing key
Undefined == <<"<undefined>">>  \* an absent property, an absent argument
EmptyString == <<>>

KP == <<"p">>     \* a tracked key
KS == <<"s">>     \* a second tracked key
KO == <<"o">>     \* a key no synchroniser tracks
VA == <<"a">>
VB == <<"b">>

Truthy(str) == str # Undefined /\ str # Null /\ str # EmptyString

\* value ?? fallback
Coalesce(value, fallback) ==
    IF value = Null \/ value = Undefined THEN fallback ELSE value

(***************************************************************************)
(* URLSearchParams: an ordered list of <<name, value>> pairs.              *)
(***************************************************************************)
SearchParamsHas(sp, key) == \E i \in 1..Len(sp) : sp[i][1] = key

SearchParamsGet(sp, key) ==
    IF SearchParamsHas(sp, key)
    THEN sp[CHOOSE i \in 1..Len(sp) :
                /\ sp[i][1] = key
                /\ \A j \in 1..(i - 1) : sp[j][1] # key][2]
    ELSE Null

RECURSIVE SearchParamsDelete(_, _)
SearchParamsDelete(sp, key) ==
    IF sp = <<>> THEN <<>>
    ELSE IF Head(sp)[1] = key THEN SearchParamsDelete(Tail(sp), key)
    ELSE <<Head(sp)>> \o SearchParamsDelete(Tail(sp), key)

\* set: the first pair of that name takes the value, the others go; else append
SearchParamsSet(sp, key, value) ==
    IF SearchParamsHas(sp, key)
    THEN LET first == CHOOSE i \in 1..Len(sp) :
                          /\ sp[i][1] = key
                          /\ \A j \in 1..(i - 1) : sp[j][1] # key
         IN  SubSeq(sp, 1, first - 1) \o <<<<key, value>>>>
                 \o SearchParamsDelete(SubSeq(sp, first + 1, Len(sp)), key)
    ELSE Append(sp, <<key, value>>)

(***************************************************************************)
(* toString() and new URLSearchParams(string): the                         *)
(* application/x-www-form-urlencoded serialiser and parser.                *)
(***************************************************************************)
Unreserved == {"a", "b", "p", "s", "o", "A", "1", "2",
               "c", "e", "g", "l", "n", "r", "t", "u", "x"}

PercentCode(c) ==
    CASE c = "&" -> <<"%", "2", "6">>
      [] c = "=" -> <<"%", "3", "D">>
      [] c = "+" -> <<"%", "2", "B">>
      [] c = "%" -> <<"%", "2", "5">>
      [] OTHER   -> <<"%", "3", "F">>

PercentChar(hex) ==
    CASE hex = <<"2", "6">> -> "&"
      [] hex = <<"3", "D">> -> "="
      [] hex = <<"2", "B">> -> "+"
      [] hex = <<"2", "5">> -> "%"
      [] OTHER              -> "?"

RECURSIVE EncodeString(_)
EncodeString(str) ==
    IF str = <<>> THEN <<>>
    ELSE (IF Head(str) \in Unreserved THEN <<Head(str)>>
          ELSE IF Head(str) = " " THEN <<"+">>
          ELSE PercentCode(Head(str))) \o EncodeString(Tail(str))

RECURSIVE DecodeString(_)
DecodeString(str) ==
    IF str = <<>> THEN <<>>
    ELSE IF Head(str) = "+" THEN <<" ">> \o DecodeString(Tail(str))
    ELSE IF Head(str) = "%" /\ Len(str) >= 3
         THEN <<PercentChar(SubSeq(str, 2, 3))>> \o DecodeString(SubSeq(str, 4, Len(str)))
    ELSE <<Head(str)>> \o DecodeString(Tail(str))

RECURSIVE Serialize(_)
Serialize(sp) ==
    IF sp = <<>> THEN <<>>
    ELSE EncodeString(Head(sp)[1]) \o <<"=">> \o EncodeString(Head(sp)[2])
             \o (IF Len(sp) > 1 THEN <<"&">> \o Serialize(Tail(sp)) ELSE <<>>)

RECURSIVE SplitOn(_, _, _, _)
SplitOn(str, sep, done, cur) ==
    IF str = <<>> THEN Append(done, cur)
    ELSE IF Head(str) = sep THEN SplitOn(Tail(str), sep, Append(done, cur), <<>>)
    ELSE SplitOn(Tail(str), sep, done, Append(cur, Head(str)))

ParsePair(segment) ==
    IF \E i \in 1..Len(segment) : segment[i] = "="
    THEN LET eq == CHOOSE i \in 1..Len(segment) :
                       /\ segment[i] = "="
                       /\ \A j \in 1..(i - 1) : segment[j] # "="
         IN  <<DecodeString(SubSeq(segment, 1, eq - 1)),
               DecodeString(SubSeq(segment, eq + 1, Len(segment)))>>
    ELSE <<DecodeString(segment), <<>>>>

RECURSIVE ParseSegments(_)
ParseSegments(segments) ==
    IF segments = <<>> THEN <<>>
    ELSE IF Head(segments) = <<>> THEN ParseSegments(Tail(segments))
    ELSE <<ParsePair(Head(segments))>> \o ParseSegments(Tail(segments))

\* the pairs in the reverse of the order of the string
ParseReversed(str) ==
    LET pairs == ParseSegments(SplitOn(str, "&", <<>>, <<>>))
    IN  [i \in 1..Len(pairs) |-> pairs[Len(pairs) + 1 - i]]

\* (the string and its segments are bound as values, so that they are
\* computed once)
Parse(str) ==
    CHOOSE pairs \in
        {ParseSegments(segments) :
            segments \in {SplitOn(s, "&", <<>>, <<>>) : s \in {str}}} : TRUE

(***************************************************************************)
(* UseQueryStateOptions and the injected schema.                           *)
(*   defined: an options object was passed; a property that is absent is   *)
(*   Undefined (defaultValue) or "none" (schema, onParseError).            *)
(***************************************************************************)
Schemas == {"enum", "norm", "opt"}

\* the keys of configTabs of the script configuration page
ConfigTabs ==
    << <<"g", "o", "a", "l">>,
       <<"p", "e", "r", "s", "o", "n", "a">>,
       <<"r", "u", "l", "e", "s">>,
       <<"r", "e", "s", "o", "u", "r", "c", "e", "s">> >>

TabKeys == {ConfigTabs[i] : i \in 1..Len(ConfigTabs)}

Options(defaultValue, schema, onParseError) ==
    [defined |-> TRUE, defaultValue |-> defaultValue, schema |-> schema,
     onParseError |-> onParseError]

NoOptions ==
    [defined |-> FALSE, defaultValue |-> Undefined, schema |-> "none",
     onParseError |-> "none"]

\* schema.safeParse(value), for three schemas of the documented kinds:
\*   "enum"  z.enum(["a"]): accepts "a" only
\*   "norm"  a coercing schema: accepts "a" and "b", and gives "a" for both
\*   "opt"   a pattern that the empty string matches: accepts "" and "a"
SafeParse(schema, value) ==
    CASE schema = "enum" -> [success |-> value = VA, data |-> value]
      [] schema = "norm" -> [success |-> value \in {VA, VB}, data |-> VA]
      [] schema = "opt"  -> [success |-> value \in {EmptyString, VA}, data |-> value]
      [] schema = "literal" -> [success |-> value \in TabKeys, data |-> value]

(***************************************************************************)
(* updateQueryState: the validation and defaulting policy, applied to one  *)
(* update on the working copy.                                             *)
(***************************************************************************)
\* what updateQueryState does on the working copy for a value
DoSet(value) == [action |-> "set", value |-> value]
DoDelete == [action |-> "delete", value |-> Undefined]
DoNothing == [action |-> "none", value |-> Undefined]

\* lines 297-301 with set for an empty value too
UpdateQueryStateBranchKeepsEmpty(value, options, shouldFallback, shouldRemove) ==
    LET validationResult == SafeParse(options.schema, value)
    IN  IF ~options.defined
        THEN DoSet(value)
        ELSE IF options.schema # "none" /\ validationResult.success
        THEN DoSet(validationResult.data)
        ELSE IF options.schema # "none" /\ shouldFallback
        THEN DoSet(options.defaultValue)
        ELSE IF options.schema # "none" /\ shouldRemove
        THEN DoDelete
        ELSE IF ~Truthy(value) /\ shouldFallback
        THEN DoSet(options.defaultValue)
        ELSE IF ~Truthy(value) /\ shouldRemove
        THEN DoDelete
        ELSE IF Truthy(value)
        THEN DoSet(value)
        ELSE DoNothing

\* line 313 with value for validationResult.data
UpdateQueryStateBranchRawOnSuccess(value, options, shouldFallback, shouldRemove) ==
    LET validationResult == SafeParse(options.schema, value)
    IN  IF ~options.defined
        THEN IF Truthy(value) THEN DoSet(value) ELSE DoDelete
        ELSE IF options.schema # "none" /\ validationResult.success
        THEN DoSet(value)
        ELSE IF options.schema # "none" /\ shouldFallback
        THEN DoSet(options.defaultValue)
        ELSE IF options.schema # "none" /\ shouldRemove
        THEN DoDelete
        ELSE IF ~Truthy(value) /\ shouldFallback
        THEN DoSet(options.defaultValue)
        ELSE IF ~Truthy(value) /\ shouldRemove
        THEN DoDelete
        ELSE IF Truthy(value)
        THEN DoSet(value)
        ELSE DoNothing

\* the branch of updateQueryState taken for a value, given the two flags
UpdateQueryStateBranch(value, options, shouldFallback, shouldRemove) ==
    LET validationResult == SafeParse(options.schema, value)
    IN  IF ~options.defined
        THEN IF Truthy(value) THEN DoSet(value) ELSE DoDelete
        ELSE IF options.schema # "none" /\ validationResult.success
        THEN DoSet(validationResult.data)
        ELSE IF options.schema # "none" /\ shouldFallback
        THEN DoSet(options.defaultValue)
        ELSE IF options.schema # "none" /\ shouldRemove
        THEN DoDelete
        ELSE IF ~Truthy(value) /\ shouldFallback
        THEN DoSet(options.defaultValue)
        ELSE IF ~Truthy(value) /\ shouldRemove
        THEN DoDelete
        ELSE IF Truthy(value)
        THEN DoSet(value)
        ELSE DoNothing

\* onParseError = "remove" when absent
UpdateQueryStateDecisionDefaultRemove(value, options) ==
    LET defaultValue == options.defaultValue
        onParseError == IF options.onParseError = "none" THEN "remove"
                        ELSE options.onParseError
        shouldFallback == onParseError = "fallback" /\ Truthy(defaultValue)
        shouldRemove == onParseError = "remove" \/ ~Truthy(defaultValue)
    IN  UpdateQueryStateBranch(value, options, shouldFallback, shouldRemove)

\* shouldRemove without "|| !defaultValue"
UpdateQueryStateDecisionStrictRemove(value, options) ==
    LET defaultValue == options.defaultValue
        onParseError == IF options.onParseError = "none" THEN "fallback"
                        ELSE options.onParseError
        shouldFallback == onParseError = "fallback" /\ Truthy(defaultValue)
        shouldRemove == onParseError = "remove"
    IN  UpdateQueryStateBranch(value, options, shouldFallback, shouldRemove)

\* shouldFallback never holds: the default is not written
UpdateQueryStateDecisionNoFallback(value, options) ==
    LET defaultValue == options.defaultValue
        onParseError == IF options.onParseError = "none" THEN "fallback"
                        ELSE options.onParseError
        shouldFallback == FALSE
        shouldRemove == onParseError = "remove" \/ ~Truthy(defaultValue)
    IN  UpdateQueryStateBranch(value, options, shouldFallback, shouldRemove)

\* shouldFallback without "onParseError === 'fallback' &&"
UpdateQueryStateDecisionAlwaysFallback(value, options) ==
    LET defaultValue == options.defaultValue
        onParseError == IF options.onParseError = "none" THEN "fallback"
                        ELSE options.onParseError
        shouldFallback == Truthy(defaultValue)
        shouldRemove == onParseError = "remove" \/ ~Truthy(defaultValue)
    IN  UpdateQueryStateBranch(value, options, shouldFallback, shouldRemove)

\* lines 305-307: the flags, and the branch they select
UpdateQueryStateDecision(value, options) ==
    LET defaultValue == options.defaultValue
        onParseError == IF options.onParseError = "none" THEN "fallback"
                        ELSE options.onParseError
        shouldFallback == onParseError = "fallback" /\ Truthy(defaultValue)
        shouldRemove == onParseError = "remove" \/ ~Truthy(defaultValue)
    IN  UpdateQueryStateBranch(value, options, shouldFallback, shouldRemove)

UpdateQueryState(update, searchParams, options) ==
    LET key == update[1]
        decision == UpdateQueryStateDecision(update[2], options)
    IN  CASE decision.action = "set" -> SearchParamsSet(searchParams, key, decision.value)
          [] decision.action = "delete" -> SearchParamsDelete(searchParams, key)
          [] OTHER -> searchParams

(***************************************************************************)
(* createQueryState: parse the serialised snapshot, apply the update(s).   *)
(***************************************************************************)
\* updates is one [key, value] pair, options the options of that key
CreateQueryStateOne(update, searchParams, options) ==
    UpdateQueryState(update, Parse(searchParams), options)

RECURSIVE ApplyUpdates(_, _, _)
ApplyUpdates(updates, urlSearchParams, optionsByKey) ==
    IF updates = <<>> THEN urlSearchParams
    ELSE ApplyUpdates(Tail(updates),
                      UpdateQueryState(Head(updates), urlSearchParams,
                                       optionsByKey[Head(updates)[1]]),
                      optionsByKey)

\* updates is a list of pairs, options a record of options by key
CreateQueryStateMany(updates, searchParams, optionsByKey) ==
    ApplyUpdates(updates, Parse(searchParams), optionsByKey)

\* createQueryState working on the snapshot it is given, not on a copy
CreateQueryStateCallInPlace(updates, snapshot, optionsByKey) ==
    LET result == CreateQueryStateMany(updates, Serialize(snapshot), optionsByKey)
    IN  [input |-> result, result |-> result]

\* a call as _updateSearchParams makes it: the snapshot is passed as its
\* toString(), and createQueryState builds a URLSearchParams of its own;
\* input is the caller's snapshot after the call
CreateQueryStateCall(updates, snapshot, optionsByKey) ==
    [input |-> snapshot,
     result |-> CreateQueryStateMany(updates, Serialize(snapshot), optionsByKey)]

(***************************************************************************)
(* shouldUpdateQueryState: the reconciliation predicate.                   *)
(* previousSearchParams is <<>> (null) or <<snapshot>>.                    *)
(***************************************************************************)
\* shouldUpdateQueryState without line 284
ShouldUpdateQueryStateNoEmptyRule(key, value, options, paramExists, previousSearchParams, isInitialMount) ==
    LET hasOptions == options.defined /\ (\/ options.defaultValue # Undefined
                                          \/ options.schema # "none"
                                          \/ options.onParseError # "none")
        hasDefaultValue == hasOptions /\ Truthy(options.defaultValue)
        hasSchema == hasOptions /\ options.schema # "none"
        previous == IF previousSearchParams = <<>> THEN Undefined
                    ELSE SearchParamsGet(previousSearchParams[1], key)
    IN  IF ~hasOptions /\ paramExists /\ Truthy(value) THEN FALSE
        ELSE \/ (isInitialMount /\ hasDefaultValue /\ value # options.defaultValue)
             \/ (isInitialMount /\ ~hasDefaultValue /\ hasSchema)
             \/ (~paramExists /\ hasDefaultValue)
             \/ (hasSchema /\ value # previous)

\* shouldUpdateQueryState without line 283
ShouldUpdateQueryStateNoMountValidation(key, value, options, paramExists, previousSearchParams, isInitialMount) ==
    LET hasOptions == options.defined /\ (\/ options.defaultValue # Undefined
                                          \/ options.schema # "none"
                                          \/ options.onParseError # "none")
        hasDefaultValue == hasOptions /\ Truthy(options.defaultValue)
        hasSchema == hasOptions /\ options.schema # "none"
        previous == IF previousSearchParams = <<>> THEN Undefined
                    ELSE SearchParamsGet(previousSearchParams[1], key)
    IN  IF ~hasOptions /\ paramExists /\ Truthy(value) THEN FALSE
        ELSE \/ (isInitialMount /\ hasDefaultValue /\ value # options.defaultValue)
             \/ (paramExists /\ ~Truthy(value))
             \/ (~paramExists /\ hasDefaultValue)
             \/ (hasSchema /\ value # previous)

ShouldUpdateQueryState(key, value, options, paramExists, previousSearchParams, isInitialMount) ==
    LET hasOptions == options.defined /\ (\/ options.defaultValue # Undefined
                                          \/ options.schema # "none"
                                          \/ options.onParseError # "none")
        hasDefaultValue == hasOptions /\ Truthy(options.defaultValue)
        hasSchema == hasOptions /\ options.schema # "none"
        previous == IF previousSearchParams = <<>> THEN Undefined
                    ELSE SearchParamsGet(previousSearchParams[1], key)
    IN  IF ~hasOptions /\ paramExists /\ Truthy(value) THEN FALSE
        ELSE \/ (isInitialMount /\ hasDefaultValue /\ value # options.defaultValue)
             \/ (isInitialMount /\ ~hasDefaultValue /\ hasSchema)
             \/ (paramExists /\ ~Truthy(value))
             \/ (~paramExists /\ hasDefaultValue)
             \/ (hasSchema /\ value # previous)

(***************************************************************************)
(* What a render does: refs, memos, and the router.                        *)
(***************************************************************************)
\* ref.current = initialValue in every render
UseRefAssigned(current, initialValue) == initialValue

\* useRef(initialValue) in a render after the first: the ref exists, and
\* initialValue is ignored
UseRef(current, initialValue) == current

\* useMemo(..., []): computed in the first render only
UseMemoOnce(previous, computed, depsChanged) == previous

\* useMemo(() => computed, deps) in a render after the first
UseMemo(previous, computed, depsChanged) ==
    IF depsChanged THEN computed ELSE previous

\* router.push: a new entry of the history stack
RouterPush(length) == length + 1

\* router.replace: the current entry of the history stack is replaced
RouterReplace(length) == length

\* useQueryState: searchParams.get(_stableKey.current)
QueryState(searchParams, key) == SearchParamsGet(searchParams, key)

\* useQueriesState: the object of searchParams.get(key), key by key
QueryStrings(searchParams, keys) ==
    [key \in {keys[i] : i \in 1..Len(keys)} |-> SearchParamsGet(searchParams, key)]

(***************************************************************************)
(* useQueryState.                                                          *)
(* A call gives the new value of the ref and the router.replace() calls.   *)
(***************************************************************************)
RefToString(ref) == IF ref = <<>> THEN Undefined ELSE Serialize(ref[1])

\* setQueryState without line 108: the commit is not remembered
SetQueryStateNotRemembered(ref, key, options, value) ==
    LET existingSearchParams == RefToString(ref)
        urlSearchParams ==
            CreateQueryStateOne(<<key, value>>,
                                Coalesce(existingSearchParams, EmptyString), options)
        newSearchParams == Serialize(urlSearchParams)
    IN  IF newSearchParams = existingSearchParams
        THEN [ref |-> ref, out |-> <<>>]
        ELSE [ref |-> ref, out |-> <<newSearchParams>>]

\* setQueryState without lines 104-106: the commit is issued in every case
SetQueryStateUnguarded(ref, key, options, value) ==
    LET existingSearchParams == RefToString(ref)
        urlSearchParams ==
            CreateQueryStateOne(<<key, value>>,
                                Coalesce(existingSearchParams, EmptyString), options)
        newSearchParams == Serialize(urlSearchParams)
    IN  [ref |-> <<urlSearchParams>>, out |-> <<newSearchParams>>]

SetQueryState(ref, key, options, value) ==
    LET existingSearchParams == RefToString(ref)
        urlSearchParams ==
            CreateQueryStateOne(<<key, value>>,
                                Coalesce(existingSearchParams, EmptyString), options)
        newSearchParams == Serialize(urlSearchParams)
    IN  IF newSearchParams = existingSearchParams
        THEN [ref |-> ref, out |-> <<>>]
        ELSE [ref |-> <<urlSearchParams>>, out |-> <<newSearchParams>>]

\* the effect without lines 119-121: no baseline is recorded
QueryStateEffectNoBaseline(ref, key, options, searchParams) ==
    LET isInitialMount == ref = <<>>
        baseline == IF isInitialMount THEN <<searchParams>> ELSE ref
        value == Coalesce(SearchParamsGet(searchParams, key), EmptyString)
        should == ShouldUpdateQueryState(key, value, options,
                                         SearchParamsHas(searchParams, key),
                                         baseline, isInitialMount)
        set == SetQueryState(<<searchParams>>, key, options, value)
    IN  IF should
        THEN [ref |-> set.ref, out |-> set.out, corrected |-> {key},
              pre |-> baseline, initial |-> isInitialMount,
              rebase |-> set.out = <<>>, arg |-> Undefined,
              remembered |-> IF set.out # <<>> THEN <<set.ref>> ELSE <<>>]
        ELSE [ref |-> ref, out |-> <<>>, corrected |-> {},
              pre |-> baseline, initial |-> isInitialMount, rebase |-> FALSE,
              arg |-> Undefined, remembered |-> <<>>]

\* an effect that does not re-base the ref before it calls the setter
QueryStateEffectNoRebase(ref, key, options, searchParams) ==
    LET isInitialMount == ref = <<>>
        baseline == IF isInitialMount THEN <<searchParams>> ELSE ref
        value == Coalesce(SearchParamsGet(searchParams, key), EmptyString)
        should == ShouldUpdateQueryState(key, value, options,
                                         SearchParamsHas(searchParams, key),
                                         baseline, isInitialMount)
        set == SetQueryState(baseline, key, options, value)
    IN  IF should
        THEN [ref |-> set.ref, out |-> set.out, corrected |-> {key},
              pre |-> baseline, initial |-> isInitialMount,
              rebase |-> set.out = <<>>, arg |-> Undefined,
              remembered |-> IF set.out # <<>> THEN <<set.ref>> ELSE <<>>]
        ELSE [ref |-> baseline, out |-> <<>>, corrected |-> {},
              pre |-> baseline, initial |-> isInitialMount, rebase |-> FALSE,
              arg |-> Undefined, remembered |-> <<>>]

\* the body of the effect, for the searchParams of the render
\* (rebase: line 134 ran and no commit came after it)
QueryStateEffect(ref, key, options, searchParams) ==
    LET isInitialMount == ref = <<>>
        baseline == IF isInitialMount THEN <<searchParams>> ELSE ref
        value == Coalesce(SearchParamsGet(searchParams, key), EmptyString)
        should == ShouldUpdateQueryState(key, value, options,
                                         SearchParamsHas(searchParams, key),
                                         baseline, isInitialMount)
        set == SetQueryState(<<searchParams>>, key, options, value)
    IN  IF should
        THEN [ref |-> set.ref, out |-> set.out, corrected |-> {key},
              pre |-> baseline, initial |-> isInitialMount,
              rebase |-> set.out = <<>>, arg |-> Undefined,
              remembered |-> IF set.out # <<>> THEN <<set.ref>> ELSE <<>>]
        ELSE [ref |-> baseline, out |-> <<>>, corrected |-> {},
              pre |-> baseline, initial |-> isInitialMount, rebase |-> FALSE,
              arg |-> Undefined, remembered |-> <<>>]

(***************************************************************************)
(* useQueriesState.                                                        *)
(***************************************************************************)
\* the type DuplicateElements<T, Seen, Duplicates>: the elements of the
\* tuple T that occur in it more than once
RECURSIVE DuplicateElements(_, _, _)
DuplicateElements(T, Seen, Duplicates) ==
    IF T = <<>> THEN Duplicates
    ELSE IF Head(T) \in Seen
         THEN DuplicateElements(Tail(T), Seen, Duplicates \cup {Head(T)})
         ELSE DuplicateElements(Tail(T), Seen \cup {Head(T)}, Duplicates)

\* the type UniqueArray<T> is T itself when DuplicateElements<T> is never,
\* and a branded type that no array of keys is assignable to otherwise:
\* the call useQueriesState(keys) type-checks exactly in the first case
\* UniqueArray<T> = T: the keys are not checked
UniqueArrayUnchecked(T) == TRUE

UniqueArray(T) == DuplicateElements(T, {}, {}) = {}

\* _updateSearchParams without line 199: the commit is not remembered
UpdateSearchParamsNotRemembered(ref, updates, optionsByKey) ==
    LET existingSearchParams == RefToString(ref)
        urlSearchParams ==
            CreateQueryStateMany(updates,
                                 Coalesce(existingSearchParams, EmptyString),
                                 optionsByKey)
        newSearchParams == Serialize(urlSearchParams)
    IN  IF newSearchParams = existingSearchParams
        THEN [ref |-> ref, out |-> <<>>]
        ELSE [ref |-> ref, out |-> <<newSearchParams>>]

UpdateSearchParams(ref, updates, optionsByKey) ==
    LET existingSearchParams == RefToString(ref)
        urlSearchParams ==
            CreateQueryStateMany(updates,
                                 Coalesce(existingSearchParams, EmptyString),
                                 optionsByKey)
        newSearchParams == Serialize(urlSearchParams)
    IN  IF newSearchParams = existingSearchParams
        THEN [ref |-> ref, out |-> <<>>]
        ELSE [ref |-> <<urlSearchParams>>, out |-> <<newSearchParams>>]

\* iteration i of the loop of the effect, and the ones after it
\* (rebase: line 232 ran and no commit came after it)
RECURSIVE QueriesStateLoop(_, _, _, _, _)
QueriesStateLoop(i, keys, optionsByKey, searchParams, st) ==
    IF i > Len(keys) THEN st
    ELSE LET key == keys[i]
             value == Coalesce(SearchParamsGet(searchParams, key), EmptyString)
             should == ShouldUpdateQueryState(key, value, optionsByKey[key],
                                              SearchParamsHas(searchParams, key),
                                              st.ref, st.initial)
             queue == IF should THEN Append(st.queue, <<key, value>>) ELSE st.queue
             update == UpdateSearchParams(<<searchParams>>, queue, optionsByKey)
         IN  QueriesStateLoop(i + 1, keys, optionsByKey, searchParams,
                 IF Len(queue) > 0
                 THEN [st EXCEPT !.ref = update.ref,
                                 !.out = @ \o update.out,
                                 !.corrected = IF should THEN @ \cup {key} ELSE @,
                                 !.queue = <<>>,
                                 !.rebase = (update.out = <<>>),
                                 !.remembered = IF update.out # <<>>
                                                THEN Append(@, update.ref)
                                                ELSE @]
                 ELSE st)

QueriesStateEffect(ref, queue, keys, optionsByKey, searchParams) ==
    LET isInitialMount == ref = <<>>
        baseline == IF isInitialMount THEN <<searchParams>> ELSE ref
    IN  QueriesStateLoop(1, keys, optionsByKey, searchParams,
            [ref |-> baseline, out |-> <<>>, corrected |-> {}, queue |-> queue,
             pre |-> baseline, initial |-> isInitialMount, rebase |-> FALSE,
             arg |-> Undefined, remembered |-> <<>>])

SetQueryStrings(ref, optionsByKey, key, value) ==
    UpdateSearchParams(ref, <<<<key, value>>>>, optionsByKey)

(***************************************************************************)
(* The inputs of the model.                                                *)
(***************************************************************************)
Values == {EmptyString, VA, VB}

OptionChoices ==
    {NoOptions} \cup
    {Options(d, s, e) : d \in {Undefined, VA, VB},
                        s \in {"none"} \cup Schemas,
                        e \in {"none", "fallback", "remove"}}

\* the options a key of useQueriesState gets
OptionChoicesByKey ==
    {NoOptions,
     Options(VA, "none", "none"),
     Options(VA, "enum", "none"),
     Options(Undefined, "enum", "none")}

KeyLists == {<<KP>>, <<KP, KS>>, <<KS, KP>>, <<KP, KP>>}

\* the snapshots with at most one pair for each key
RECURSIVE SnapshotsOf(_)
SnapshotsOf(pairs) ==
    {<<>>} \cup UNION {{<<pair>> \o rest :
                          rest \in SnapshotsOf({q \in pairs : q[1] # pair[1]})} :
                      pair \in pairs}

\* the first URL of useQueriesState: no key, one key, or p before s
InitialSnapshotsMulti ==
    LET ps == SnapshotsOf({<<KP, v>> : v \in {VA, VB}})
        ss == SnapshotsOf({<<KS, v>> : v \in {VA, VB}})
    IN  {p \o q : p \in ps, q \in ss}

\* the keys the other writers write
SingleKeys == {KP, KO}
MultiKeys == {KP, KS}

\* a value of the step parameter that is no tab
UnknownStep == <<"x">>

KStep == <<"s", "t", "e", "p">>

ExternalValues(key) ==
    IF key = KO THEN {VA}
    ELSE IF key = KStep THEN TabKeys \cup {UnknownStep}
    ELSE Values

(***************************************************************************)
(* Observations.                                                           *)
(***************************************************************************)
\* the raw value the effect reads for a key
RawValue(searchParams, key) ==
    Coalesce(SearchParamsGet(searchParams, key), EmptyString)

\* the snapshot the policy makes of searchParams for one key
Resolved(searchParams, key, options) ==
    UpdateQueryState(<<key, RawValue(searchParams, key)>>, searchParams, options)

\* the tracked keys that genuinely need correction: the policy changes them
Divergent(keys, optionsByKey, searchParams) ==
    {key \in {keys[i] : i \in 1..Len(keys)} :
        SearchParamsGet(Resolved(searchParams, key, optionsByKey[key]), key)
            # SearchParamsGet(searchParams, key)}

NoEvent(op) ==
    [op |-> op, pre |-> <<>>, initial |-> FALSE, out |-> <<>>,
     corrected |-> {}, prevCommit |-> Undefined, rebasedBefore |-> FALSE,
     afterCommit |-> FALSE, arg |-> Undefined, remembered |-> <<>>]

Last(seq) == seq[Len(seq)]

EffectOps == {"mount", "pass", "rerun"}
HookOps == EffectOps \cup {"set"}

\* the bookkeeping every operation of a hook does with its result
\* (a hook operation leaves url alone: the snapshot it saw is url afterwards)
Observe(op, result) ==
    /\ Len(inflight) + Len(result.out) <= MaxInflight
    /\ inflight' = inflight \o result.out
    /\ ev' = [op |-> op, pre |-> result.pre,
              initial |-> result.initial, out |-> result.out,
              corrected |-> result.corrected, prevCommit |-> lastCommit,
              rebasedBefore |-> rebased,
              afterCommit |-> ev.op \in EffectOps /\ ev.out # <<>>,
              arg |-> result.arg, remembered |-> result.remembered]
    /\ lastCommit' = IF result.out = <<>> THEN lastCommit ELSE Last(result.out)
    /\ rebased' = IF result.out # <<>> THEN result.rebase
                   ELSE (rebased \/ result.rebase)
    /\ IF op \in {"mount", "pass"} /\ disturbances = 0
       THEN closedCommits' = closedCommits + Len(result.out) /\ needed' = needed
       ELSE closedCommits' = 0 /\ needed' = 0
    /\ passed' = (passed \/ op \in EffectOps)
    /\ UNCHANGED <<returned, props, historyLength>>

(***************************************************************************)
(* The environment: the router and the other writers of the URL.           *)
(***************************************************************************)
hookVars == <<stableKey, stableOptions, stableSearchParams, stableKeys,
              stableOptionsByKey, stableSearchParamsM, paramUpdates, accepted,
              props, instances>>

\* what the environment leaves alone
envFrame == <<hookVars, passed>>

\* what the hook returns in a render with searchParams
Returned(searchParams) ==
    IF stableKeys = <<>> THEN QueryState(searchParams, stableKey)
    ELSE QueryStrings(searchParams, stableKeys)

\* the navigation of the oldest router.replace() lands
Reflect ==
    /\ inflight # <<>>
    /\ url' = Parse(Head(inflight))
    /\ inflight' = Tail(inflight)
    /\ dirty' = (dirty \/ url' # url)
    /\ returned' = UseMemo(returned, Returned(url'), url' # url)
    /\ historyLength' = RouterReplace(historyLength)
    /\ ev' = NoEvent("reflect")
    /\ UNCHANGED <<envFrame, disturbances, lastCommit, rebased, closedCommits, needed>>

\* another writer sets or removes a key of the URL (the entries its
\* navigation may add to the history stack are not counted)
ExternalWrite(keys) ==
    /\ disturbances < MaxDisturbances
    /\ \E key \in keys :
          \/ \E value \in ExternalValues(key) :
                url' = SearchParamsSet(url, key, value)
          \/ url' = SearchParamsDelete(url, key)
    /\ url' # url
    /\ dirty' = TRUE
    /\ returned' = UseMemo(returned, Returned(url'), TRUE)
    /\ disturbances' = disturbances + 1
    /\ ev' = NoEvent("external")
    /\ closedCommits' = 0
    /\ needed' = 0
    /\ UNCHANGED <<envFrame, inflight, lastCommit, rebased, historyLength>>

(***************************************************************************)
(* useQueryState: the operations.                                          *)
(***************************************************************************)
multiVars == <<stableKeys, stableOptionsByKey, stableSearchParamsM, paramUpdates,
               accepted, instances>>

InitShared ==
    /\ inflight = <<>>
    /\ dirty = FALSE
    /\ ev = NoEvent("init")
    /\ lastCommit = Undefined
    /\ rebased = FALSE
    /\ closedCommits = 0
    /\ disturbances = 0
    /\ historyLength = 1
    /\ passed = FALSE
    /\ instances = <<>>

InitSingle ==
    /\ InitShared
    /\ url \in SnapshotsOf({<<KP, v>> : v \in Values})
    /\ stableKey = KP
    /\ stableOptions \in OptionChoices
    /\ needed = Cardinality(Divergent(<<KP>>, [k \in {KP} |-> stableOptions], url))
    /\ stableSearchParams = <<>>
    /\ stableKeys = <<>>
    /\ stableOptionsByKey = <<>>
    /\ stableSearchParamsM = <<>>
    /\ paramUpdates = <<>>
    /\ accepted = FALSE
    /\ returned = QueryState(url, stableKey)
    /\ props = [key |-> stableKey, options |-> stableOptions]

RunQueryStateEffect(op) ==
    LET result == QueryStateEffect(stableSearchParams, stableKey, stableOptions, url)
    IN  /\ Observe(op, result)
        /\ stableSearchParams' = result.ref
        /\ dirty' = FALSE
        /\ UNCHANGED <<url, stableKey, stableOptions, multiVars>>

\* the effect runs for the first time
Mount ==
    /\ stableSearchParams = <<>>
    /\ RunQueryStateEffect("mount")
    /\ UNCHANGED disturbances

\* the effect runs because searchParams changed
Pass ==
    /\ stableSearchParams # <<>>
    /\ dirty
    /\ RunQueryStateEffect("pass")
    /\ UNCHANGED disturbances

\* the effect runs because setQueryState changed (router, pathname), or is
\* run twice on mount, with the searchParams it has already seen
Rerun ==
    /\ stableSearchParams # <<>>
    /\ ~dirty
    /\ disturbances < MaxDisturbances
    /\ disturbances' = disturbances + 1
    /\ RunQueryStateEffect("rerun")

\* the caller calls the setter
Set ==
    /\ stableSearchParams # <<>>
    /\ disturbances < MaxDisturbances
    /\ \E value \in Values :
          LET set == SetQueryState(stableSearchParams, stableKey, stableOptions, value)
              result == [ref |-> set.ref, out |-> set.out, corrected |-> {stableKey},
                         pre |-> stableSearchParams, initial |-> FALSE,
                         rebase |-> FALSE, arg |-> value,
                         remembered |-> IF set.out # <<>> THEN <<set.ref>> ELSE <<>>]
          IN  /\ Observe("set", result)
              /\ stableSearchParams' = set.ref
    /\ disturbances' = disturbances + 1
    /\ UNCHANGED <<url, dirty, stableKey, stableOptions, multiVars>>

ExternalSingle == ExternalWrite(SingleKeys)

NextSingle == Mount \/ Pass \/ Rerun \/ Set \/ Reflect \/ ExternalSingle

SpecSingle == InitSingle /\ [][NextSingle]_vars

\* mounts, external changes and imperative sets only: the effect runs when
\* searchParams has changed, and at no other time
NextSingleUrlDriven == Mount \/ Pass \/ Set \/ Reflect \/ ExternalSingle

SpecSingleUrlDriven == InitSingle /\ [][NextSingleUrlDriven]_vars

\* the options a later render may pass
RerenderOptions == {NoOptions, Options(VB, "enum", "remove")}

\* the component renders again, and passes another key or other options
Rerender ==
    /\ \E key \in SingleKeys, options \in RerenderOptions :
          /\ props' = [key |-> key, options |-> options]
          /\ stableKey' = UseRef(stableKey, key)
          /\ stableOptions' = UseRef(stableOptions, options)
    /\ props' # props
    /\ ev' = NoEvent("render")
    /\ UNCHANGED <<url, inflight, dirty, stableSearchParams, multiVars, lastCommit,
                   rebased, closedCommits, needed, disturbances, returned,
                   historyLength, passed>>

NextSingleRerender == Mount \/ Pass \/ Set \/ Reflect \/ ExternalSingle \/ Rerender

SpecSingleRerender == InitSingle /\ [][NextSingleRerender]_vars

(***************************************************************************)
(* useQueriesState: the operations.                                        *)
(***************************************************************************)
singleVars == <<stableKey, stableOptions, stableSearchParams, instances>>

KeySet(keys) == {keys[i] : i \in 1..Len(keys)}

InitMulti ==
    /\ InitShared
    /\ url \in InitialSnapshotsMulti
    /\ stableKeys \in KeyLists
    /\ stableOptionsByKey \in [{KP, KS} -> OptionChoicesByKey]
    /\ \A k \in {KP, KS} \ KeySet(stableKeys) : stableOptionsByKey[k] = NoOptions
    /\ accepted = UniqueArray(stableKeys)
    /\ stableSearchParamsM = <<>>
    /\ paramUpdates = <<>>
    /\ needed = Cardinality(Divergent(stableKeys, stableOptionsByKey, url))
    /\ stableKey = <<>>
    /\ stableOptions = NoOptions
    /\ stableSearchParams = <<>>
    /\ returned = QueryStrings(url, stableKeys)
    /\ props = [key |-> stableKeys, options |-> stableOptionsByKey]

RunQueriesStateEffect(op) ==
    LET result == QueriesStateEffect(stableSearchParamsM, paramUpdates, stableKeys,
                                     stableOptionsByKey, url)
    IN  /\ accepted
        /\ Observe(op, result)
        /\ stableSearchParamsM' = result.ref
        /\ paramUpdates' = result.queue
        /\ dirty' = FALSE
        /\ UNCHANGED <<url, stableKeys, stableOptionsByKey, accepted, singleVars>>

MountM ==
    /\ stableSearchParamsM = <<>>
    /\ RunQueriesStateEffect("mount")
    /\ UNCHANGED disturbances

PassM ==
    /\ stableSearchParamsM # <<>>
    /\ dirty
    /\ RunQueriesStateEffect("pass")
    /\ UNCHANGED disturbances

RerunM ==
    /\ stableSearchParamsM # <<>>
    /\ ~dirty
    /\ disturbances < MaxDisturbances
    /\ disturbances' = disturbances + 1
    /\ RunQueriesStateEffect("rerun")

SetM ==
    /\ accepted
    /\ stableSearchParamsM # <<>>
    /\ disturbances < MaxDisturbances
    /\ \E key \in KeySet(stableKeys), value \in Values :
          LET set == SetQueryStrings(stableSearchParamsM, stableOptionsByKey, key, value)
              result == [ref |-> set.ref, out |-> set.out, corrected |-> {key},
                         pre |-> stableSearchParamsM, initial |-> FALSE,
                         rebase |-> FALSE, arg |-> value,
                         remembered |-> IF set.out # <<>> THEN <<set.ref>> ELSE <<>>]
          IN  /\ Observe("set", result)
              /\ stableSearchParamsM' = set.ref
    /\ disturbances' = disturbances + 1
    /\ UNCHANGED <<url, dirty, stableKeys, stableOptionsByKey, paramUpdates, accepted,
                   singleVars>>

ExternalMulti == ExternalWrite(MultiKeys)

NextMulti == MountM \/ PassM \/ RerunM \/ SetM \/ Reflect \/ ExternalMulti

SpecMulti == InitMulti /\ [][NextMulti]_vars

(***************************************************************************)
(* useQueryString, the earlier hook: it keeps no snapshot, and reads the   *)
(* key and the options of the render (stableKey and stableOptions here).   *)
(***************************************************************************)
GetSearchParamsWithUpdatedValue(searchParams, key, value) ==
    Serialize(SearchParamsSet(Parse(Serialize(searchParams)), key, value))

GetSearchParamsWithRemovedValue(searchParams, key) ==
    Serialize(SearchParamsDelete(Parse(Serialize(searchParams)), key))

\* createQueryString with the schema consulted before the empty value
CreateQueryStringSchemaFirst(searchParams, key, value, options) ==
    LET defaultValue == Coalesce(options.defaultValue, Null)
        onParseError == IF options.onParseError = "none" THEN "fallback"
                        ELSE options.onParseError
        result == SafeParse(options.schema, value)
    IN  IF options.schema # "none" /\ result.success
        THEN GetSearchParamsWithUpdatedValue(searchParams, key, result.data)
        ELSE IF ~Truthy(value)
        THEN GetSearchParamsWithRemovedValue(searchParams, key)
        ELSE IF options.schema # "none" /\ onParseError = "fallback"
        THEN IF Truthy(defaultValue)
             THEN GetSearchParamsWithUpdatedValue(searchParams, key, defaultValue)
             ELSE GetSearchParamsWithRemovedValue(searchParams, key)
        ELSE IF options.schema # "none" /\ onParseError = "remove"
        THEN GetSearchParamsWithRemovedValue(searchParams, key)
        ELSE GetSearchParamsWithUpdatedValue(searchParams, key, value)

CreateQueryString(searchParams, key, value, options) ==
    LET defaultValue == Coalesce(options.defaultValue, Null)
        onParseError == IF options.onParseError = "none" THEN "fallback"
                        ELSE options.onParseError
        result == SafeParse(options.schema, value)
    IN  IF ~Truthy(value)
        THEN GetSearchParamsWithRemovedValue(searchParams, key)
        ELSE IF options.schema # "none" /\ result.success
        THEN GetSearchParamsWithUpdatedValue(searchParams, key, result.data)
        ELSE IF options.schema # "none" /\ onParseError = "fallback"
        THEN IF Truthy(defaultValue)
             THEN GetSearchParamsWithUpdatedValue(searchParams, key, defaultValue)
             ELSE GetSearchParamsWithRemovedValue(searchParams, key)
        ELSE IF options.schema # "none" /\ onParseError = "remove"
        THEN GetSearchParamsWithRemovedValue(searchParams, key)
        ELSE GetSearchParamsWithUpdatedValue(searchParams, key, value)

\* setQueryString: router.replace in every case
SetQueryString(searchParams, key, value, options) ==
    <<CreateQueryString(searchParams, key, value, options)>>

\* the body of the effect of useQueryString
QueryStringEffect(searchParams, key, options) ==
    LET queryString == SearchParamsGet(searchParams, key)
        hasQueryString == SearchParamsHas(searchParams, key)
        defaultValue == Coalesce(options.defaultValue, Null)
    IN  IF (hasQueryString /\ ~Truthy(queryString))
            \/ (~hasQueryString /\ Truthy(defaultValue))
        THEN SetQueryString(searchParams, key, Coalesce(defaultValue, EmptyString),
                            options)
        ELSE <<>>

\* the first render: the effect has yet to run
InitLegacy ==
    /\ inflight = <<>>
    /\ dirty = TRUE
    /\ ev = NoEvent("init")
    /\ lastCommit = Undefined
    /\ rebased = FALSE
    /\ closedCommits = 0
    /\ needed = 0
    /\ disturbances = 0
    /\ historyLength = 1
    /\ passed = FALSE
    /\ instances = <<>>
    /\ url \in SnapshotsOf({<<KP, v>> : v \in Values} \cup {<<KO, VA>>})
    /\ stableKey = KP
    /\ stableOptions \in OptionChoices
    /\ stableSearchParams = <<>>
    /\ stableKeys = <<>>
    /\ stableOptionsByKey = <<>>
    /\ stableSearchParamsM = <<>>
    /\ paramUpdates = <<>>
    /\ accepted = FALSE
    /\ returned = SearchParamsGet(url, stableKey)
    /\ props = [key |-> stableKey, options |-> stableOptions]

legacyResult(out, value) ==
    [ref |-> <<>>, out |-> out, corrected |-> {stableKey}, pre |-> <<url>>,
     initial |-> FALSE, rebase |-> FALSE, arg |-> value, remembered |-> <<>>]

\* the effect runs: on mount, and when searchParams has changed
LegacyEffect ==
    /\ dirty
    /\ Observe("legacyeffect",
               legacyResult(QueryStringEffect(url, stableKey, stableOptions), Undefined))
    /\ dirty' = FALSE
    /\ UNCHANGED <<url, hookVars, disturbances>>

\* the caller calls the setter
LegacySet ==
    /\ disturbances < MaxDisturbances
    /\ \E value \in Values :
          Observe("legacyset",
                  legacyResult(SetQueryString(url, stableKey, value, stableOptions),
                               value))
    /\ disturbances' = disturbances + 1
    /\ UNCHANGED <<url, dirty, hookVars>>

NextLegacy == LegacyEffect \/ LegacySet \/ Reflect \/ ExternalSingle

SpecLegacy == InitLegacy /\ [][NextLegacy]_vars

(***************************************************************************)
(* updateQueryState and the serialiser on their own: the inputs are drawn  *)
(* by Init, and each step applies one of them to the snapshot in url.      *)
(***************************************************************************)
AlnumKey == <<"A", "1">>
AlnumValue == <<"a", "2">>

PolicyPairs ==
    {<<k, v>> : k \in {KP, KO, AlnumKey}, v \in Values \cup {AlnumValue}}

\* the snapshots of at most two pairs, the same key twice included
PolicySnapshots ==
    {<<>>} \cup {<<p>> : p \in PolicyPairs} \cup {<<p, q>> : p, q \in PolicyPairs}

\* the options of OptionChoices, and those with defaultValue: ""
PolicyOptions ==
    OptionChoices \cup
    {Options(EmptyString, s, e) : s \in {"none"} \cup Schemas,
                                  e \in {"none", "fallback", "remove"}}

InitPolicy ==
    /\ InitShared
    /\ url \in PolicySnapshots
    /\ stableKey = KP
    /\ stableOptions \in PolicyOptions
    /\ needed = 0
    /\ stableSearchParams = <<>>
    /\ stableKeys = <<>>
    /\ stableOptionsByKey = <<>>
    /\ stableSearchParamsM = <<>>
    /\ paramUpdates = <<>>
    /\ accepted = FALSE
    /\ returned = QueryState(url, stableKey)
    /\ props = [key |-> stableKey, options |-> stableOptions]

policyFrame == <<inflight, dirty, hookVars, lastCommit, rebased, closedCommits, needed,
                 disturbances, returned, historyLength, passed>>

\* updateQueryState([key, value], url, options)
ApplyUpdate ==
    /\ \E value \in Values :
          /\ url' = UpdateQueryState(<<stableKey, value>>, url, stableOptions)
          /\ ev' = [NoEvent("update") EXCEPT !.pre = <<url>>, !.arg = value]
    /\ UNCHANGED policyFrame

\* new URLSearchParams(url.toString())
RoundTrip ==
    /\ url' = Parse(Serialize(url))
    /\ ev' = [NoEvent("roundtrip") EXCEPT !.pre = <<url>>]
    /\ UNCHANGED policyFrame

\* the snapshots shouldUpdateQueryState is given as previousSearchParams
PreviousSnapshots ==
    {<<>>} \cup {<<snapshot>> : snapshot \in SnapshotsOf({<<KP, v>> : v \in Values})}

\* shouldUpdateQueryState for the key, with the value and paramExists its
\* callers read from searchParams
Decide ==
    /\ \E previousSearchParams \in PreviousSnapshots, isInitialMount \in BOOLEAN :
          LET should == ShouldUpdateQueryState(stableKey, RawValue(url, stableKey),
                                               stableOptions,
                                               SearchParamsHas(url, stableKey),
                                               previousSearchParams, isInitialMount)
          IN  ev' = [NoEvent("decide") EXCEPT
                        !.pre = previousSearchParams,
                        !.initial = isInitialMount,
                        !.corrected = IF should THEN {stableKey} ELSE {}]
    /\ UNCHANGED <<url, policyFrame>>

NextPolicy == ApplyUpdate \/ RoundTrip \/ Decide

SpecPolicy == InitPolicy /\ [][NextPolicy]_vars

(***************************************************************************)
(* createQueryState with a list of updates on its own: the snapshot it is  *)
(* given is in stableSearchParamsM, its result goes to url.                *)
(***************************************************************************)
EngineSnapshots ==
    SnapshotsOf({<<KP, VB>>, <<KO, VA>>})

\* the lists of one or two updates of the tracked keys
UpdateLists ==
    LET updates == {<<k, v>> : k \in MultiKeys, v \in Values}
    IN  {<<u>> : u \in updates} \cup {<<u, w>> : u, w \in updates}

InitEngine ==
    /\ InitShared
    /\ url \in EngineSnapshots
    /\ stableSearchParamsM = <<url>>
    /\ stableKeys = <<KP, KS>>
    /\ stableOptionsByKey \in [MultiKeys -> OptionChoicesByKey]
    /\ accepted = TRUE
    /\ paramUpdates = <<>>
    /\ needed = 0
    /\ stableKey = <<>>
    /\ stableOptions = NoOptions
    /\ stableSearchParams = <<>>
    /\ returned = QueryStrings(url, stableKeys)
    /\ props = [key |-> stableKeys, options |-> stableOptionsByKey]

engineFrame == <<inflight, dirty, stableKey, stableOptions, stableSearchParams,
                 stableKeys, stableOptionsByKey, paramUpdates, accepted, props, instances,
                 lastCommit, rebased, closedCommits, needed, disturbances, returned,
                 historyLength, passed>>

\* createQueryState({updates, searchParams: snapshot.toString(), options})
ApplyBatch ==
    /\ \E updates \in UpdateLists :
          LET call == CreateQueryStateCall(updates, stableSearchParamsM[1],
                                           stableOptionsByKey)
          IN  /\ stableSearchParamsM' = <<call.input>>
              /\ url' = call.result
              /\ ev' = [NoEvent("batch") EXCEPT !.pre = stableSearchParamsM,
                                                !.arg = updates]
    /\ UNCHANGED engineFrame

\* the caller keeps the result as its snapshot
Adopt ==
    /\ stableSearchParamsM # <<url>>
    /\ stableSearchParamsM' = <<url>>
    /\ ev' = NoEvent("adopt")
    /\ UNCHANGED <<url, engineFrame>>

NextEngine == ApplyBatch \/ Adopt

SpecEngine == InitEngine /\ [][NextEngine]_vars

(***************************************************************************)
(* Two useQueryState on one page, each with its own key and its own        *)
(* default, on a URL without either key. They share the URL and the        *)
(* router; each has its own refs and its own effect.                       *)
(***************************************************************************)
InstanceIds == {1, 2}

\* the key of each instance
InstanceKey(i) == IF i = 1 THEN KP ELSE KS

\* the options an instance is given: a default, alone or with a schema
InstanceOptions ==
    {Options(d, s, "none") : d \in {VA, VB}, s \in {"none", "enum", "norm"}}

InitPair ==
    /\ url = <<>>
    /\ inflight = <<>>
    /\ instances \in [InstanceIds -> {[stableKey |-> k, stableOptions |-> o,
                                        stableSearchParams |-> <<>>, dirty |-> FALSE] :
                                           k \in {KP, KS}, o \in InstanceOptions}]
    /\ \A i \in InstanceIds : instances[i].stableKey = InstanceKey(i)
    /\ ev = NoEvent("init")
    /\ lastCommit = Undefined
    /\ historyLength = 1
    /\ dirty = FALSE
    /\ rebased = FALSE
    /\ closedCommits = 0
    /\ needed = 0
    /\ disturbances = 0
    /\ passed = FALSE
    /\ stableKey = <<>>
    /\ stableOptions = NoOptions
    /\ stableSearchParams = <<>>
    /\ stableKeys = <<>>
    /\ stableOptionsByKey = <<>>
    /\ stableSearchParamsM = <<>>
    /\ paramUpdates = <<>>
    /\ accepted = FALSE
    /\ returned = <<>>
    /\ props = <<>>

pairFrame == <<dirty, stableKey, stableOptions, stableSearchParams, stableKeys,
               stableOptionsByKey, stableSearchParamsM, paramUpdates, accepted,
               rebased, closedCommits, needed, disturbances, returned, props, passed>>

\* the effect of instance i runs on the current searchParams
RunInstanceEffect(i, op) ==
    \E me \in {instances[i]} :
    \E result \in {QueryStateEffect(me.stableSearchParams, me.stableKey,
                                     me.stableOptions, url)} :
        /\ Len(inflight) + Len(result.out) <= MaxInflight
        /\ instances' = [instances EXCEPT ![i] =
                            [me EXCEPT !.stableSearchParams = result.ref,
                                       !.dirty = FALSE]]
        /\ inflight' = inflight \o result.out
        /\ lastCommit' = IF result.out = <<>> THEN lastCommit ELSE Last(result.out)
        /\ ev' = [NoEvent(op) EXCEPT !.pre = result.pre, !.out = result.out,
                                      !.initial = result.initial,
                                      !.corrected = result.corrected,
                                      !.prevCommit = lastCommit, !.arg = i]
        /\ UNCHANGED <<url, historyLength, pairFrame>>

\* the effect of an instance runs for the first time
InstanceMount ==
    \E i \in InstanceIds :
        /\ instances[i].stableSearchParams = <<>>
        /\ RunInstanceEffect(i, "mount")

\* the effect of an instance runs because searchParams changed
InstancePass ==
    \E i \in InstanceIds :
        /\ instances[i].stableSearchParams # <<>>
        /\ instances[i].dirty
        /\ RunInstanceEffect(i, "pass")

\* the navigation of the oldest router.replace() lands: both instances
\* render with the new searchParams
PairReflect ==
    /\ inflight # <<>>
    /\ url' = Parse(Head(inflight))
    /\ inflight' = Tail(inflight)
    /\ instances' = [i \in InstanceIds |->
                        [instances[i] EXCEPT !.dirty = (@ \/ url' # url)]]
    /\ historyLength' = RouterReplace(historyLength)
    /\ ev' = NoEvent("reflect")
    /\ UNCHANGED <<lastCommit, pairFrame>>

\* a router.replace() that has not landed is given up for a later one
PairSupersede ==
    /\ Len(inflight) >= 2
    /\ inflight' = Tail(inflight)
    /\ ev' = NoEvent("supersede")
    /\ UNCHANGED <<url, instances, historyLength, lastCommit, pairFrame>>

NextPair == InstanceMount \/ InstancePass \/ PairReflect \/ PairSupersede

\* React runs each effect that is due, and the router ends each navigation
PairFairness ==
    /\ WF_vars(InstanceMount)
    /\ WF_vars(InstancePass)
    /\ WF_vars(PairReflect)

SpecPair == InitPair /\ [][NextPair]_vars /\ PairFairness

(***************************************************************************)
(* ScriptConfigurationPage: useQueryState("step", ...) and the Back and    *)
(* Next buttons.                                                           *)
(***************************************************************************)
DefaultStep == ConfigTabs[1]

PageOptions == Options(DefaultStep, "literal", "none")

\* what reading .key of undefined does
TypeError == <<"<TypeError>">>

\* configTabs.findIndex((tab) => tab.key === step): -1 when no tab has it
FindIndex(step) ==
    IF \E i \in 1..Len(ConfigTabs) : ConfigTabs[i] = step
    THEN (CHOOSE i \in 1..Len(ConfigTabs) : ConfigTabs[i] = step) - 1
    ELSE -1

\* configTabs[index].key: configTabs[index] is undefined outside the array
TabKeyAt(index) ==
    IF index \in 0..(Len(ConfigTabs) - 1) THEN ConfigTabs[index + 1] ELSE TypeError

\* onClick of Back: Undefined when it returns early, else the argument of
\* setStep, or TypeError
BackOnClick(step) ==
    LET currentIndex == FindIndex(step)
    IN  IF currentIndex < -1 \/ currentIndex = 0 THEN Undefined
        ELSE TabKeyAt(currentIndex - 1)

\* onClick of Next
NextOnClick(step) ==
    LET currentIndex == FindIndex(step)
    IN  IF currentIndex < -1 \/ currentIndex = Len(ConfigTabs) - 1 THEN Undefined
        ELSE TabKeyAt(currentIndex + 1)

InitPage ==
    /\ InitShared
    /\ url \in SnapshotsOf({<<KStep, v>> : v \in ExternalValues(KStep)})
    /\ stableKey = KStep
    /\ stableOptions = PageOptions
    /\ needed = Cardinality(Divergent(<<KStep>>, [k \in {KStep} |-> stableOptions], url))
    /\ stableSearchParams = <<>>
    /\ stableKeys = <<>>
    /\ stableOptionsByKey = <<>>
    /\ stableSearchParamsM = <<>>
    /\ paramUpdates = <<>>
    /\ accepted = FALSE
    /\ returned = QueryState(url, stableKey)
    /\ props = [key |-> stableKey, options |-> stableOptions]

\* a click on a button, with the step of the current render
PageClick(op, request) ==
    /\ LET set == IF request \in {Undefined, TypeError}
                  THEN [ref |-> stableSearchParams, out |-> <<>>]
                  ELSE SetQueryState(stableSearchParams, stableKey, stableOptions,
                                     request)
           result == [ref |-> set.ref, out |-> set.out, corrected |-> {},
                      pre |-> stableSearchParams, initial |-> FALSE,
                      rebase |-> FALSE, arg |-> request,
                      remembered |-> IF set.out # <<>> THEN <<set.ref>> ELSE <<>>]
       IN  /\ Observe(op, result)
           /\ stableSearchParams' = set.ref
    /\ UNCHANGED <<url, dirty, stableKey, stableOptions, multiVars, disturbances>>

\* the user clicks Back (the page has mounted)
BackClick ==
    /\ stableSearchParams # <<>>
    /\ PageClick("back", BackOnClick(returned))

\* the user clicks Next
NextClick ==
    /\ stableSearchParams # <<>>
    /\ PageClick("next", NextOnClick(returned))

\* the user navigates to another value of step, or to none
PageNavigate == ExternalWrite({KStep})

NextPage == Mount \/ Pass \/ Reflect \/ BackClick \/ NextClick \/ PageNavigate

SpecPage == InitPage /\ [][NextPage]_vars

(***************************************************************************)
(* Claims.                                                                 *)
(* ev describes the operation that led to the state: the commits it issued *)
(* (ev.out) and the keys it found in need of correction (ev.corrected).    *)
(* A hook operation leaves url alone, so url is the snapshot it observed.  *)
(***************************************************************************)
Commits == {ev.out[i] : i \in 1..Len(ev.out)}

\* C1: one pass of the effect of useQueriesState issues at most one
\* router.replace(), however many tracked keys it corrects.
C1_OneCommitPerPass ==
    (accepted /\ ev.op \in EffectOps) => Len(ev.out) <= 1

\* C2: when a pass of useQueriesState corrects two or more keys, every
\* snapshot it commits holds the resolved value of every corrected key.
C2_CommitHoldsEveryCorrection ==
    (accepted /\ ev.op \in EffectOps /\ Cardinality(ev.corrected) >= 2) =>
        \A c \in Commits : \A key \in ev.corrected :
            SearchParamsGet(Parse(c), key)
                = SearchParamsGet(Resolved(url, key, stableOptionsByKey[key]), key)

HasDuplicate(keys) ==
    \E i, j \in 1..Len(keys) : i # j /\ keys[i] = keys[j]

C4_UntrackedKeysPreserved ==
    (ev.op \in HookOps /\ stableSearchParams # <<>> /\ ~dirty) =>
        \A c \in Commits : \A key \in SingleKeys \ {stableKey} :
            SearchParamsGet(Parse(c), key) = SearchParamsGet(url, key)

\* C5: when the effect of useQueryState, configured with a schema, observes
\* a value of its key that the schema rejects, the key is the default after
\* the pass (onParseError "fallback" and a default) or absent (otherwise).
C5_RejectedValueResolved ==
    (/\ ev.op \in EffectOps
     /\ stableSearchParams # <<>>
     /\ stableOptions.schema # "none"
     /\ SearchParamsHas(url, stableKey)
     /\ ~SafeParse(stableOptions.schema, RawValue(url, stableKey)).success) =>
        LET after == IF ev.out = <<>> THEN url ELSE Parse(Last(ev.out))
        IN  SearchParamsGet(after, stableKey)
                = IF stableOptions.onParseError # "remove"
                     /\ Truthy(stableOptions.defaultValue)
                  THEN stableOptions.defaultValue
                  ELSE Null

\* C6: in a pass of useQueriesState (on mount or after a change of the URL)
\* the keys found in need of correction are those the predicate selects
\* against the state before the pass, whatever their position in the list.
C6_DecidedAgainstPrePassState ==
    (accepted /\ ev.op \in {"mount", "pass"}) =>
        ev.corrected =
            {key \in KeySet(stableKeys) :
                ShouldUpdateQueryState(key, RawValue(url, key), stableOptionsByKey[key],
                                       SearchParamsHas(url, key), ev.pre, ev.initial)}

\* C7: when the effect runs again on the snapshot of a pass that has just
\* committed, before the URL reflects that commit, it issues no commit.
C7_NoSecondCommitBeforeReflected ==
    (ev.op = "rerun" /\ ev.afterCommit) => ev.out = <<>>

\* C8 (as stated): no two consecutive commits of a synchroniser carry the
\* same serialised snapshot.
C8_ConsecutiveCommitsDiffer ==
    /\ ev.out # <<>> => ev.out[1] # ev.prevCommit
    /\ \A i \in 1..(Len(ev.out) - 1) : ev.out[i] # ev.out[i + 1]

\* C8 (amended): two consecutive commits of a synchroniser carry the same
\* serialised snapshot only if an effect re-based the remembered snapshot on
\* the URL it observed after the first of them; a commit that follows
\* another without such a pass differs from it.
C8_CommitsDifferUnlessRebased ==
    /\ (ev.out # <<>> /\ ev.out[1] = ev.prevCommit) =>
            (ev.rebasedBefore \/ ev.op \in EffectOps)
    /\ (ev.op = "set" /\ ev.out # <<>>) => ev.out[1] # Serialize(ev.pre[1])

\* C8 happens: the setter commits right after an earlier commit, with no
\* re-basing pass between the two.
C8_Witness ==
    /\ ev.op = "set"
    /\ ev.out # <<>>
    /\ ev.prevCommit # Undefined
    /\ ~ev.rebasedBefore

\* C9: while the synchroniser's own commits are the only writes to the URL,
\* it issues at most one commit for each tracked key that needed correction.
C9_OneCommitPerDivergentKey ==
    closedCommits <= needed

\* C10: once the URL equals the snapshot useQueryState last committed, a
\* further run of the effect on it issues no commit.
C10_Idempotent ==
    (/\ ev.op \in {"pass", "rerun"}
     /\ stableSearchParams # <<>>
     /\ ev.prevCommit # Undefined
     /\ url = Parse(ev.prevCommit)) => ev.out = <<>>

\* the options of a tracked key, for either hook
OptionsOf(key) ==
    IF stableKeys = <<>> THEN stableOptions ELSE stableOptionsByKey[key]

\* C11: a call of the setter applies the policy for its key and value, with
\* the options of that key, to the remembered snapshot; it issues exactly one
\* commit, of the candidate, when the candidate's serialisation differs from
\* that of the remembered snapshot, and no commit when the two are equal.
C11_SetterCommitsIffDifferent ==
    ev.op = "set" =>
        \A key \in ev.corrected :
            LET candidate == UpdateQueryState(<<key, ev.arg>>, ev.pre[1], OptionsOf(key))
            IN  ev.out = IF Serialize(candidate) # Serialize(ev.pre[1])
                         THEN <<Serialize(candidate)>>
                         ELSE <<>>

\* C11 happens: the setter is given a value the schema normalises, and
\* commits the normalised value.
C11_Witness ==
    /\ ev.op = "set"
    /\ ev.arg = VB
    /\ stableOptions.schema = "norm"
    /\ ev.out # <<>>
    /\ SearchParamsGet(Parse(ev.out[1]), stableKey) = VA

\* the options are a non-empty defaultValue and nothing else
OnlyDefault(options) ==
    /\ options.defined
    /\ Truthy(options.defaultValue)
    /\ options.schema = "none"
    /\ options.onParseError = "none"

\* C12: when useQueryState is given a non-empty defaultValue as its only
\* option and its key is absent from the snapshot of the first run of the
\* effect, that run issues one commit: its snapshot has the key with the
\* default as value, and every other key as the observed snapshot has it.
C12_DefaultOnMount ==
    (/\ ev.op = "mount"
     /\ stableSearchParams # <<>>
     /\ OnlyDefault(stableOptions)
     /\ ~SearchParamsHas(url, stableKey)) =>
        /\ Len(ev.out) = 1
        /\ SearchParamsGet(Parse(ev.out[1]), stableKey) = stableOptions.defaultValue
        /\ SearchParamsDelete(Parse(ev.out[1]), stableKey) = url

\* C12 happens: the first run of the effect finds another key in the URL
\* and not its own, and the hook has a default.
C12_Witness ==
    /\ ev.op = "mount"
    /\ stableSearchParams # <<>>
    /\ OnlyDefault(stableOptions)
    /\ ~SearchParamsHas(url, stableKey)
    /\ SearchParamsHas(url, KO)
    /\ ev.out # <<>>

\* the schema of the options rejects the value
Rejected(options, value) ==
    options.schema # "none" /\ ~SafeParse(options.schema, value).success

\* C13: when updateQueryState is applied with a schema that rejects the
\* value and onParseError "remove", the key is absent from the snapshot it
\* leaves, with a defaultValue and without one, and the rest is untouched.
C13_RemoveOnRejection ==
    (/\ ev.op = "update"
     /\ stableOptions.onParseError = "remove"
     /\ Rejected(stableOptions, ev.arg)) =>
        /\ ~SearchParamsHas(url, stableKey)
        /\ url = SearchParamsDelete(ev.pre[1], stableKey)

\* C13 happens: a rejected value, onParseError "remove", a default, and a
\* snapshot that held the key.
C13_Witness ==
    /\ ev.op = "update"
    /\ stableOptions.onParseError = "remove"
    /\ Truthy(stableOptions.defaultValue)
    /\ Rejected(stableOptions, ev.arg)
    /\ SearchParamsHas(ev.pre[1], stableKey)
    /\ ~SearchParamsHas(url, stableKey)

\* the options with another onParseError
WithOnParseError(options, onParseError) ==
    [options EXCEPT !.onParseError = onParseError]

\* C14: without a defaultValue, updateQueryState decides the same with
\* onParseError "fallback" as with "remove", for every value and schema;
\* and with onParseError absent it decides as with "fallback".
C14_FallbackWithoutDefaultIsRemove ==
    (ev.op = "update" /\ stableOptions.defined) =>
        LET update == <<stableKey, ev.arg>>
            fallback == WithOnParseError(stableOptions, "fallback")
            remove == WithOnParseError(stableOptions, "remove")
        IN  /\ stableOptions.defaultValue = Undefined =>
                  /\ UpdateQueryStateDecision(ev.arg, fallback)
                        = UpdateQueryStateDecision(ev.arg, remove)
                  /\ url = UpdateQueryState(update, ev.pre[1], fallback)
                  /\ url = UpdateQueryState(update, ev.pre[1], remove)
            /\ stableOptions.onParseError = "none" =>
                  /\ UpdateQueryStateDecision(ev.arg, stableOptions)
                        = UpdateQueryStateDecision(ev.arg, fallback)
                  /\ url = UpdateQueryState(update, ev.pre[1], fallback)

\* C14 happens: onParseError "fallback", no default, and a value the schema
\* rejects: the key is removed.
C14_Witness ==
    /\ ev.op = "update"
    /\ stableOptions.onParseError = "fallback"
    /\ stableOptions.defaultValue = Undefined
    /\ Rejected(stableOptions, ev.arg)
    /\ SearchParamsHas(ev.pre[1], stableKey)
    /\ ~SearchParamsHas(url, stableKey)

\* C16: for every value and all options, updateQueryState does exactly one
\* of set(key, a string) and delete(key) on the snapshot, a rejection by the
\* schema included; it never leaves without either.
C16_PolicyTotal ==
    ev.op = "update" =>
        LET decision == UpdateQueryStateDecision(ev.arg, stableOptions)
        IN  /\ decision.action \in {"set", "delete"}
            /\ decision.action = "set" =>
                  /\ decision.value \notin {Undefined, Null}
                  /\ url = SearchParamsSet(ev.pre[1], stableKey, decision.value)
            /\ decision.action = "delete" =>
                  url = SearchParamsDelete(ev.pre[1], stableKey)

\* C16 happens: an options object with no property, and an empty value.
C16_Witness ==
    /\ ev.op = "update"
    /\ stableOptions = Options(Undefined, "none", "none")
    /\ ev.arg = EmptyString
    /\ SearchParamsHas(ev.pre[1], stableKey)
    /\ ~SearchParamsHas(url, stableKey)

\* C19: parsing the serialisation of a snapshot whose keys and values are
\* ASCII letters and digits gives the snapshot again: the same pairs in the
\* same order.
C19_RoundTrip ==
    ev.op = "roundtrip" => url = ev.pre[1]

\* C19 happens: a snapshot of two pairs, with a key of a letter and a digit
\* and an empty value, has been serialised and parsed.
C19_Witness ==
    /\ ev.op = "roundtrip"
    /\ Len(ev.pre[1]) = 2
    /\ ev.pre[1][1] = <<AlnumKey, AlnumValue>>
    /\ ev.pre[1][2] = <<KP, EmptyString>>

\* C15: in every state the value the hook returns for a tracked key is the
\* value of the key in the current URL, null when the URL does not hold the
\* key, whatever the remembered snapshot and the default are.
C15_ReturnedIsExternalValue ==
    returned = IF stableKeys = <<>> THEN SearchParamsGet(url, stableKey)
               ELSE [key \in KeySet(stableKeys) |-> SearchParamsGet(url, key)]

\* C15 happens: another writer has removed the key, the hook has a default
\* and remembers a snapshot that holds the key, and null is returned.
C15_Witness ==
    /\ ev.op = "external"
    /\ stableSearchParams # <<>>
    /\ Truthy(stableOptions.defaultValue)
    /\ SearchParamsGet(stableSearchParams[1], stableKey) = stableOptions.defaultValue
    /\ ~SearchParamsHas(url, stableKey)
    /\ returned = Null

\* C17: no step changes the key(s) and the options the hook works with:
\* they stay those of the first render, whatever a later render passes.
C17_CapturedAtCreation ==
    [][/\ stableKey' = stableKey
       /\ stableOptions' = stableOptions
       /\ stableKeys' = stableKeys
       /\ stableOptionsByKey' = stableOptionsByKey]_vars

\* C17 happens: a later render has passed another key and other options,
\* and the setter has then committed a value for the key of the first render.
C17_Witness ==
    /\ ev.op = "set"
    /\ props.key # stableKey
    /\ props.options # stableOptions
    /\ ev.out # <<>>
    /\ SearchParamsHas(Parse(ev.out[1]), stableKey)
    /\ ~SearchParamsHas(Parse(ev.out[1]), props.key)

\* C18: no step changes the length of the history stack: a commit that
\* lands replaces the current entry.
C18_HistoryLengthUnchanged ==
    [][historyLength' = historyLength]_vars

\* C18 happens: two commits of the hook have landed, the second being the
\* last one issued.
C18_Witness ==
    /\ ev.op = "reflect"
    /\ inflight = <<>>
    /\ lastCommit # Undefined
    /\ url = Parse(lastCommit)
    /\ closedCommits >= 2

\* C20: the setter of useQueryString commits once, and the snapshot it
\* commits has every other key as the URL has it; it has not the key when
\* the value is empty; it has the schema's output when the schema accepts
\* the value; when the schema rejects it, it has the defaultValue under
\* onParseError "fallback" (or absent) with a defaultValue, and not the key
\* without a defaultValue or under "remove".
C20_LegacySetter ==
    ev.op = "legacyset" =>
        /\ Len(ev.out) = 1
        /\ LET after == Parse(ev.out[1])
                key == stableKey
                value == ev.arg
                options == stableOptions
            IN  /\ SearchParamsDelete(after, key) = SearchParamsDelete(url, key)
                /\ value = EmptyString => ~SearchParamsHas(after, key)
                /\ (/\ value # EmptyString
                    /\ options.schema # "none"
                    /\ SafeParse(options.schema, value).success) =>
                       after = SearchParamsSet(url, key,
                                               SafeParse(options.schema, value).data)
                /\ (value # EmptyString /\ Rejected(options, value)) =>
                       IF options.onParseError # "remove" /\ Truthy(options.defaultValue)
                       THEN after = SearchParamsSet(url, key, options.defaultValue)
                       ELSE ~SearchParamsHas(after, key)

\* C20 happens: the setter is given a value the schema rejects, the hook
\* has a default, and the URL holds the key and another key.
C20_Witness ==
    /\ ev.op = "legacyset"
    /\ ev.arg = VB
    /\ Rejected(stableOptions, ev.arg)
    /\ stableOptions.onParseError = "fallback"
    /\ stableOptions.defaultValue = VA
    /\ SearchParamsHas(url, KO)
    /\ SearchParamsGet(url, stableKey) = VB
    /\ ev.out # <<>>
    /\ SearchParamsGet(Parse(ev.out[1]), stableKey) = VA

\* a default exists: the defaultValue is a non-empty string
DefaultExists(options) == Truthy(options.defaultValue)

\* C21: updateQueryState follows the decision table. No options: set the
\* value if it is not empty, else delete. Schema accepts: set the schema's
\* output. Schema rejects: set the default under "fallback" with a default,
\* else delete. No schema: an empty value gives the default under "fallback"
\* with a default, else delete; a non-empty value is set.
C21_DecisionTable ==
    ev.op = "update" =>
        LET value == ev.arg
            options == stableOptions
            fallback == options.onParseError # "remove" /\ DefaultExists(options)
            expected ==
                IF ~options.defined
                THEN IF value # EmptyString THEN DoSet(value) ELSE DoDelete
                ELSE IF options.schema # "none"
                THEN IF SafeParse(options.schema, value).success
                     THEN DoSet(SafeParse(options.schema, value).data)
                     ELSE IF fallback THEN DoSet(options.defaultValue) ELSE DoDelete
                ELSE IF value = EmptyString
                     THEN IF fallback THEN DoSet(options.defaultValue) ELSE DoDelete
                     ELSE DoSet(value)
        IN  /\ UpdateQueryStateDecision(value, options) = expected
            /\ url = IF expected.action = "set"
                     THEN SearchParamsSet(ev.pre[1], stableKey, expected.value)
                     ELSE SearchParamsDelete(ev.pre[1], stableKey)

\* C21 happens: the schema accepts the value and gives another string, and
\* the snapshot holds the schema's output.
C21_Witness ==
    /\ ev.op = "update"
    /\ stableOptions.schema = "norm"
    /\ ev.arg = VB
    /\ SearchParamsGet(url, stableKey) = VA

\* C22: shouldUpdateQueryState is false when no options are configured (none
\* passed, or an object with no property) and the key is present with a
\* non-empty value; otherwise it is the disjunction of the five rules, in
\* which a defaultValue "" is no default.
C22_PredicateRules ==
    ev.op = "decide" =>
        LET key == stableKey
            options == stableOptions
            value == RawValue(url, key)
            exists == SearchParamsHas(url, key)
            noOptions == ~options.defined \/ options = Options(Undefined, "none", "none")
            hasDefault == DefaultExists(options)
            hasValidator == options.schema # "none"
            previous == IF ev.pre = <<>> THEN Undefined
                        ELSE SearchParamsGet(ev.pre[1], key)
            expected ==
                IF noOptions /\ exists /\ value # EmptyString THEN FALSE
                ELSE \/ (ev.initial /\ hasDefault /\ value # options.defaultValue)
                     \/ (ev.initial /\ ~hasDefault /\ hasValidator)
                     \/ (exists /\ value = EmptyString)
                     \/ (~exists /\ hasDefault)
                     \/ (hasValidator /\ value # previous)
        IN  (key \in ev.corrected) <=> expected

\* C22 happens: the only option is defaultValue "", the key is present with
\* an empty value on a later observation, and the predicate is true.
C22_Witness ==
    /\ ev.op = "decide"
    /\ stableOptions = Options(EmptyString, "none", "none")
    /\ ~ev.initial
    /\ SearchParamsHas(url, stableKey)
    /\ RawValue(url, stableKey) = EmptyString
    /\ ev.corrected = {stableKey}

\* the snapshot the hook remembers
Remembered ==
    IF stableKeys = <<>> THEN stableSearchParams ELSE stableSearchParamsM

\* C23: a run of the effect decides with isInitialMount true exactly when
\* no run came before it; that first run takes the URL as its baseline, and
\* if it finds nothing to correct it remembers the URL and issues no
\* commit; every later run decides with isInitialMount false.
C23_InitialExactlyFirstPass ==
    [][ev'.op \in EffectOps =>
          /\ ev'.initial = ~passed
          /\ ~passed => ev'.pre = <<url>>
          /\ (~passed /\ ev'.corrected = {}) =>
                (ev'.out = <<>> /\ Remembered' = <<url>>)]_vars

\* C23 happens: a later run of the effect, after the URL changed, has
\* decided with isInitialMount false and committed.
C23_Witness ==
    /\ ev.op = "pass"
    /\ passed
    /\ ~ev.initial
    /\ ev.out # <<>>
    /\ disturbances > 0

\* C24: the first run of the effect of useQueryState with a schema and no
\* default finds its key in need of correction whatever the URL holds; it
\* commits the resolved snapshot if the serialisation of that snapshot
\* differs from that of the URL, and issues no commit otherwise.
C24_ValidationOnMount ==
    (/\ ev.op = "mount"
     /\ stableSearchParams # <<>>
     /\ stableOptions.schema # "none"
     /\ ~DefaultExists(stableOptions)) =>
        LET resolved == Serialize(Resolved(url, stableKey, stableOptions))
        IN  /\ ev.corrected = {stableKey}
            /\ ev.out = IF resolved # Serialize(url) THEN <<resolved>> ELSE <<>>

\* C24 happens: the URL holds a value the schema accepts as it is, the
\* first run has found the key in need of correction, and nothing is
\* committed.
C24_Witness ==
    /\ ev.op = "mount"
    /\ stableSearchParams # <<>>
    /\ stableOptions.schema = "enum"
    /\ ~DefaultExists(stableOptions)
    /\ SearchParamsGet(url, stableKey) = VA
    /\ ev.corrected = {stableKey}
    /\ ev.out = <<>>

\* C25: every commit of an operation differs from the serialisation of the
\* snapshot the hook remembers when it issues it (the URL in a run of the
\* effect, the remembered snapshot in a call of the setter), and right after
\* each commit the hook remembers the snapshot of that commit; a call of
\* the setter that issues no commit leaves the remembered snapshot alone.
C25_CommitOnlyIfDifferentAndRemembered ==
    ev.op \in HookOps =>
        /\ \A c \in Commits :
              c # Serialize(IF ev.op = "set" THEN ev.pre[1] ELSE url)
        /\ Len(ev.remembered) = Len(ev.out)
        /\ \A i \in 1..Len(ev.out) : ev.remembered[i] = <<Parse(ev.out[i])>>
        /\ (ev.op = "set" /\ ev.out # <<>>) => Remembered = <<Parse(Last(ev.out))>>
        /\ (ev.op = "set" /\ ev.out = <<>>) => Remembered = ev.pre

\* C25 happens: a run of the effect of useQueriesState has committed, and
\* a call of the setter after it has found nothing to commit.
C25_Witness ==
    /\ accepted
    /\ ev.op = "set"
    /\ ev.out = <<>>
    /\ lastCommit # Undefined
    /\ Remembered = <<Parse(lastCommit)>>

\* the keys of a list of updates
UpdatedKeys(updates) == {updates[i][1] : i \in 1..Len(updates)}

\* C26: createQueryState with a list of updates leaves the snapshot it was
\* given as it was; its result is that snapshot with the updates applied
\* one after the other, each with the options of its own key; a key of no
\* update has in the result the value it had; and when the two updates have
\* the same key, the key is in the result as the second update alone
\* leaves it.
C26_BatchInOrderOnACopy ==
    ev.op = "batch" =>
        LET given == ev.pre[1]
            updates == ev.arg
            first == UpdateQueryState(updates[1], given,
                                      stableOptionsByKey[updates[1][1]])
            both == UpdateQueryState(updates[2], first,
                                     stableOptionsByKey[updates[2][1]])
        IN  /\ stableSearchParamsM = ev.pre
            /\ url = IF Len(updates) = 1 THEN first ELSE both
            /\ \A key \in {KP, KS, KO} \ UpdatedKeys(updates) :
                  SearchParamsGet(url, key) = SearchParamsGet(given, key)
            /\ (Len(updates) = 2 /\ updates[1][1] = updates[2][1]) =>
                  SearchParamsGet(url, updates[2][1])
                      = SearchParamsGet(
                            UpdateQueryState(updates[2], given,
                                             stableOptionsByKey[updates[2][1]]),
                            updates[2][1])

\* C26 happens: two updates of the same key, the second with a value the
\* schema rejects, on a snapshot with a third key: the default is there.
C26_Witness ==
    /\ ev.op = "batch"
    /\ Len(ev.arg) = 2
    /\ ev.arg[1] = <<KP, VA>>
    /\ ev.arg[2] = <<KP, VB>>
    /\ stableOptionsByKey[KP] = Options(VA, "enum", "none")
    /\ SearchParamsHas(ev.pre[1], KO)
    /\ ~SearchParamsHas(ev.pre[1], KP)
    /\ SearchParamsGet(url, KP) = VA
    /\ SearchParamsHas(url, KO)

\* the key is in the snapshot with an empty value
EmptyIn(searchParams, key) ==
    SearchParamsHas(searchParams, key) /\ SearchParamsGet(searchParams, key) = EmptyString

\* C27: a run of the effect that observes its key with an empty value
\* finds it in need of correction and commits a snapshot in which the key
\* is not empty; and when the effect has run on the current URL and no
\* commit is in flight, the URL does not hold the key with an empty value.
C27_NoEmptyValueLeft ==
    /\ (ev.op \in {"mount", "pass"} /\ stableSearchParams # <<>>
            /\ EmptyIn(url, stableKey)) =>
          /\ ev.corrected = {stableKey}
          /\ ev.out # <<>>
          /\ ~EmptyIn(Parse(Last(ev.out)), stableKey)
    /\ (stableSearchParams # <<>> /\ ~dirty /\ inflight = <<>>) =>
          ~EmptyIn(url, stableKey)

\* C28: a run of the effect of a hook with a default that observes the URL
\* without its key, on mount or after a change of the URL, issues a commit
\* whose snapshot has the key with the default as value.
C28_DefaultPopulated ==
    (/\ ev.op \in {"mount", "pass"}
     /\ stableSearchParams # <<>>
     /\ DefaultExists(stableOptions)
     /\ ~SearchParamsHas(url, stableKey)) =>
        /\ ev.out # <<>>
        /\ SearchParamsGet(Parse(Last(ev.out)), stableKey) = stableOptions.defaultValue

\* C29: a run of the effect of a hook without options issues no commit
\* when its key is absent or has a non-empty value; when the key is there
\* with an empty value it commits the URL without the key, and nothing else.
C29_NoOptionsNoCommit ==
    (/\ ev.op \in EffectOps
     /\ stableSearchParams # <<>>
     /\ stableOptions \in {NoOptions, Options(Undefined, "none", "none")}) =>
        ev.out = IF EmptyIn(url, stableKey)
                 THEN <<Serialize(SearchParamsDelete(url, stableKey))>>
                 ELSE <<>>

\* C29 happens: another writer has emptied the key of a hook without
\* options beside another key, and the effect has committed the removal.
C29_Witness ==
    /\ ev.op = "pass"
    /\ stableOptions = NoOptions
    /\ EmptyIn(url, stableKey)
    /\ SearchParamsHas(url, KO)
    /\ ev.out = <<Serialize(SearchParamsDelete(url, stableKey))>>

\* C30: when the effect has run on the current URL and no commit is in
\* flight, a call of the setter whose value resolves to something else than
\* the URL holds for the key issues a commit, and the snapshot of the commit
\* holds the resolved value.
C30_SetNotLost ==
    (/\ ev.op = "set"
     /\ stableSearchParams # <<>>
     /\ ~dirty
     /\ inflight = ev.out) =>
        LET resolved == SearchParamsGet(
                            UpdateQueryState(<<stableKey, ev.arg>>, url, stableOptions),
                            stableKey)
        IN  resolved # SearchParamsGet(url, stableKey) =>
                /\ ev.out # <<>>
                /\ SearchParamsGet(Parse(Last(ev.out)), stableKey) = resolved

\* both instances have run their effect on the current URL, no
\* router.replace() is pending, the URL holds each key with its default, and
\* an effect that ran again would issue no commit
PairQuiescent ==
    /\ inflight = <<>>
    /\ \A i \in InstanceIds :
          LET me == instances[i]
          IN  /\ me.stableSearchParams # <<>>
              /\ ~me.dirty
              /\ SearchParamsGet(url, me.stableKey) = me.stableOptions.defaultValue
              /\ QueryStateEffect(me.stableSearchParams, me.stableKey,
                                  me.stableOptions, url).out = <<>>

C32_BackNextSafe ==
    ev.op \in {"back", "next"} =>
        LET step == returned
            currentIndex == FindIndex(step)
            offset == IF ev.op = "back" THEN -1 ELSE 1
            edge == IF ev.op = "back" THEN 0 ELSE Len(ConfigTabs) - 1
        IN  /\ ev.arg # TypeError
            /\ ev.arg # Undefined => ev.arg \in TabKeys
            /\ (step \in TabKeys /\ currentIndex # edge) =>
                    ev.arg = ConfigTabs[currentIndex + offset + 1]
            /\ (step \in TabKeys /\ currentIndex = edge) => ev.arg = Undefined

====
